---------------------------- MODULE Spec2Model ----------------------------
(***************************************************************************)
(* Model of core/rust/qdbr/src/parquet_write/fixed_len_bytes.rs:           *)
(* bytes_to_page and encode_plain, with the two collaborators of           *)
(* parquet_write::util (encode_bool_iter, build_plain_page) modelled from  *)
(* their documented contracts.                                             *)
(*                                                                         *)
(* Each element of Procs is one thread that invokes bytes_to_page again    *)
(* and again; the steps of different threads interleave freely.  The       *)
(* locals of an invocation are the per-thread variables below, named as in *)
(* the source.                                                             *)
(***************************************************************************)
EXTENDS Integers, Sequences, FiniteSets

\* ------------------------------------------------------------------ bounds

\* Longest generated column (number of rows).
MaxLen == 2

\* ------------------------------------------------------------------ inputs

\* The threads that call bytes_to_page.
Procs == {1, 2}

\* Row width N (the const generic) of the generated columns; the scenario
\* column below has another.
Widths == {2}

\* The rows of width n the generated columns are built from: two rows that
\* differ, and, for n > 1, whose bytes differ inside the row.
RowsOf(n) == {[i \in 1..n |-> ((i + k) % 2) + 1] : k \in {0, 1}}

\* The scenario column of the specification: three 4-byte rows 01..0C.
ScenarioColumn == [n |-> 4, rows |-> << <<1, 2, 3, 4>>, <<5, 6, 7, 8>>, <<9, 10, 11, 12>> >>]

\* A column is its width n and its rows, each a sequence of n bytes.
Columns ==
    UNION {{[n |-> n, rows |-> r] :
                r \in UNION {[1..l -> RowsOf(n)] : l \in 0..MaxLen}} : n \in Widths}
    \cup {ScenarioColumn}

\* parquet2's Version, the field of WriteOptions this code reads.
Versions == {"V1", "V2"}

\* WriteOptions values.
WriteOptions == [version : Versions]

\* The PrimitiveType a caller passes with a column of width n (opaque to this
\* code, which hands it on to the assembler).
PrimitiveType(n) == [physical_type |-> "FixedLenByteArray", size |-> n]

PrimitiveTypes == {PrimitiveType(c.n) : c \in Columns}

\* --------------------------------------------------------- result values

\* ParquetResult<T>: Ok(v) or Err(e).
Ok(v) == [tag |-> "Ok", val |-> v]
Err(e) == [tag |-> "Err", val |-> e]

\* No value yet: a call that has not been made, a result not yet returned.
Nothing == [tag |-> "None", val |-> <<>>]

\* ------------------------------------------------------------------- state

VARIABLES
    encFails,   \* the versions on which the Validity Encoder fails
    asmFails,   \* the type descriptors the Page Assembler rejects
    pc,         \* [p]: the stage of p's invocation
    N,          \* [p]: the row width of the column
    data,       \* [p]: the rows of the column (data: &[[u8; N]])
    options,    \* [p]: options: WriteOptions
    type_,      \* [p]: type_: PrimitiveType
    buffer,     \* [p]: the local buffer
    null_count, \* [p]: the local null_count
    length,     \* [p]: the local length
    definition_levels_byte_length,  \* [p]: the local of that name
    iter_pos,   \* [p]: rows that data.iter().for_each of encode_plain has visited
    nulls,      \* [p]: the sequence encode_bool_iter consumed (Nothing: not called)
    encoded,    \* [p]: encode_bool_iter's result, with the buffer before and after
    handed,     \* [p]: the arguments build_plain_page was called with
    assembled,  \* [p]: build_plain_page's result
    calls,      \* [p]: how often this invocation called each collaborator
    result      \* [p]: what bytes_to_page returned

vars == <<encFails, asmFails, pc, N, data, options, type_, buffer, null_count,
          length, definition_levels_byte_length, iter_pos, nulls, encoded, handed,
          assembled, calls, result>>

env == <<encFails, asmFails>>
inputs == <<N, data, options, type_>>

Stages == {"Idle", "Start", "ValidityEncoded", "ValuesEncoded", "Assembled", "Done", "Error"}

\* ------------------------------------------- bytes_to_page: the closure

\* IsNull with a null rule filled in: a row whose first byte is 1 is null.
IsNull_Sentinel(bytes) == bytes[1] = 1

\* The condition of `if false { null_count += 1; false } else { true }`.
IsNull(bytes) == FALSE

\* nulls_iterator, as the sequence it yields when consumed.
nulls_iterator(d) == [i \in 1..Len(d) |-> ~IsNull(d[i])]

\* null_count once nulls_iterator has been consumed: one increment per null row.
NullCountAfter(d) == Cardinality({i \in 1..Len(d) : IsNull(d[i])})

\* ------------------------------------------------- encode_plain (lines 9-15)

\* extend_from_slice that skips a row whose first byte is 1 (the TODO of
\* line 12 filled in on this side only).
extend_from_slice_SkipNull(buf, row) == IF row[1] = 1 THEN buf ELSE buf \o row

\* extend_from_slice that writes a length byte before the row, as the plain
\* encoding of variable-length byte arrays does.
extend_from_slice_Prefixed(buf, row) == buf \o <<Len(row)>> \o row

\* extend_from_slice that replaces the buffer by the row.
extend_from_slice_Overwrite(buf, row) == row

\* One iteration of the for_each: buffer.extend_from_slice(x).
extend_from_slice(buf, row) == buf \o row

RECURSIVE encode_plain(_, _)
\* The whole loop: the buffer after every row of d has been visited in order.
encode_plain(d, buf) ==
    IF d = <<>> THEN buf ELSE encode_plain(Tail(d), extend_from_slice(buf, Head(d)))

\* ------------------------------- collaborators (parquet_write::util), modelled

ceil8(n) == (n + 7) \div 8

RECURSIVE uleb128(_)
uleb128(n) == IF n < 128 THEN <<n>> ELSE <<(n % 128) + 128>> \o uleb128(n \div 128)

RECURSIVE PackBits(_, _, _)
\* Byte k (from 1) of the LSB-first bitmap of the boolean sequence s, from bit j.
PackBits(s, k, j) ==
    IF j > 7 THEN 0
    ELSE LET i == 8 * (k - 1) + j + 1
         IN  (IF i <= Len(s) /\ s[i] THEN 2 ^ j ELSE 0) + PackBits(s, k, j + 1)

\* The bit-packed hybrid run: a ULEB128 header, then the bitmap.
encode_bool(s) ==
    uleb128(ceil8(Len(s)) * 2 + 1) \o [k \in 1..ceil8(Len(s)) |-> PackBits(s, k, 0)]

le_bytes(n) == <<n % 256, (n \div 256) % 256, (n \div 65536) % 256, (n \div 16777216) % 256>>

\* What the encoder appends: V1 prefixes the run with its length, V2 does not.
DefinitionLevels(s, version) ==
    IF version = "V1" THEN le_bytes(Len(encode_bool(s))) \o encode_bool(s)
    ELSE encode_bool(s)

\* encode_bool_iter(&mut buffer, iter, version): the result and the buffer after.
encode_bool_iter(buf, iter, version) ==
    IF version \in encFails
    THEN [res |-> Err([kind |-> "ValidityEncodingError", detail |-> version]), buffer |-> buf]
    ELSE [res |-> Ok(<<>>), buffer |-> buf \o DefinitionLevels(iter, version)]

\* build_plain_page(buffer, num_rows, num_values, null_count,
\*                  definition_levels_byte_length, statistics, type_, options, encoding)
build_plain_page(a) ==
    IF a.type_ \in asmFails
    THEN Err([kind |-> "AssemblyError", detail |-> a.type_])
    ELSE Ok([header |-> a])

\* --------------------------------------------- bytes_to_page (lines 17-51)

\* A buffer kept in a static and not cleared between calls.
NewBuffer_Static == buffer[CHOOSE q \in Procs : TRUE]

\* `let mut buffer = vec![];`
NewBuffer == <<>>

\* The arguments of the build_plain_page call, lines 39-49, from the locals.
PageArgsOf(buf, len, nc, dl, t, o) ==
    [buffer |-> buf,
     num_rows |-> len,
     num_values |-> len,
     null_count |-> nc,
     definition_levels_byte_length |-> dl,
     statistics |-> "None",
     type_ |-> t,
     options |-> o,
     encoding |-> "Plain"]

\* PageArgs with buffer.len() taken at the call instead of the recorded length.
PageArgs_LenAtCall(p) ==
    PageArgsOf(buffer[p], length[p], null_count[p], Len(buffer[p]), type_[p], options[p])

\* PageArgs with the recorded length kept in one variable all invocations share.
PageArgs_SharedLength(p) ==
    PageArgsOf(buffer[p], length[p], null_count[p],
               definition_levels_byte_length[CHOOSE q \in Procs : TRUE], type_[p], options[p])

\* The call as invocation p makes it.
PageArgs(p) ==
    PageArgsOf(buffer[p], length[p], null_count[p], definition_levels_byte_length[p],
               type_[p], options[p])

\* MapPageData that turns a page of no rows into an error.
MapPageData_RejectEmpty(r) ==
    IF r.tag = "Ok"
    THEN IF r.val.header.num_rows = 0
         THEN Err([kind |-> "EmptyPage", detail |-> r.val.header.type_])
         ELSE Ok([variant |-> "Data", page |-> r.val])
    ELSE r

\* `.map(Page::Data)` on the assembler's result.
MapPageData(r) ==
    IF r.tag = "Ok" THEN Ok([variant |-> "Data", page |-> r.val]) ELSE r

\* Propagate that wraps the encoder's error in an error of its own.
Propagate_Wrapped(r) == Err([kind |-> "EncodeError", detail |-> r.val])

\* `?` on the encoder's result: the error it returns from bytes_to_page.
Propagate(r) == r

\* bytes_to_page as one function of its arguments, run from entry to return
\* with nothing else running: the build_plain_page call it makes (Nothing when
\* it makes none) and the value it returns.
bytes_to_page(d, o, t) ==
    LET it == nulls_iterator(d)
        len == Len(it)
        e == encode_bool_iter(NewBuffer, it, o.version)
    IN  IF e.res.tag = "Err"
        THEN [handed |-> Nothing, result |-> Propagate(e.res)]
        ELSE LET a == PageArgsOf(encode_plain(d, e.buffer), len, 0 + NullCountAfter(d),
                                 Len(e.buffer), t, o)
             IN  [handed |-> Ok(a), result |-> MapPageData(build_plain_page(a))]

NoCalls == [encode_bool_iter |-> 0, encode_plain |-> 0, build_plain_page |-> 0]

Init ==
    /\ encFails \in SUBSET Versions
    /\ asmFails \in SUBSET PrimitiveTypes
    /\ pc = [p \in Procs |-> "Idle"]
    /\ N = [p \in Procs |-> 1]
    /\ data = [p \in Procs |-> <<>>]
    /\ options = [p \in Procs |-> [version |-> "V1"]]
    /\ type_ = [p \in Procs |-> PrimitiveType(1)]
    /\ buffer = [p \in Procs |-> <<>>]
    /\ null_count = [p \in Procs |-> 0]
    /\ length = [p \in Procs |-> 0]
    /\ definition_levels_byte_length = [p \in Procs |-> 0]
    /\ iter_pos = [p \in Procs |-> 0]
    /\ nulls = [p \in Procs |-> Nothing]
    /\ encoded = [p \in Procs |-> Nothing]
    /\ handed = [p \in Procs |-> Nothing]
    /\ assembled = [p \in Procs |-> Nothing]
    /\ calls = [p \in Procs |-> NoCalls]
    /\ result = [p \in Procs |-> Nothing]

\* Lines 17-35: the call, the fresh locals, the lazy iterator and its len().
Call(p, c, o, t) ==
    /\ pc[p] \in {"Idle", "Done", "Error"}
    /\ pc' = [pc EXCEPT ![p] = "Start"]
    /\ N' = [N EXCEPT ![p] = c.n]
    /\ data' = [data EXCEPT ![p] = c.rows]
    /\ options' = [options EXCEPT ![p] = o]
    /\ type_' = [type_ EXCEPT ![p] = t]
    /\ buffer' = [buffer EXCEPT ![p] = NewBuffer]
    /\ null_count' = [null_count EXCEPT ![p] = 0]
    /\ length' = [length EXCEPT ![p] = Len(nulls_iterator(c.rows))]
    /\ definition_levels_byte_length' = [definition_levels_byte_length EXCEPT ![p] = 0]
    /\ iter_pos' = [iter_pos EXCEPT ![p] = 0]
    /\ nulls' = [nulls EXCEPT ![p] = Nothing]
    /\ encoded' = [encoded EXCEPT ![p] = Nothing]
    /\ handed' = [handed EXCEPT ![p] = Nothing]
    /\ assembled' = [assembled EXCEPT ![p] = Nothing]
    /\ calls' = [calls EXCEPT ![p] = NoCalls]
    /\ result' = [result EXCEPT ![p] = Nothing]
    /\ UNCHANGED env

\* Lines 36-37: encode_bool_iter(...)?, then the buffer length is recorded.
EncodeValidity(p) ==
    /\ pc[p] = "Start"
    /\ LET it == nulls_iterator(data[p])
           r == encode_bool_iter(buffer[p], it, options[p].version)
       IN  /\ nulls' = [nulls EXCEPT ![p] = Ok(it)]
           /\ null_count' = [null_count EXCEPT ![p] = @ + NullCountAfter(data[p])]
           /\ buffer' = [buffer EXCEPT ![p] = r.buffer]
           /\ encoded' = [encoded EXCEPT ![p] =
                  [tag |-> r.res.tag,
                   val |-> [res |-> r.res.val, before |-> buffer[p], after |-> r.buffer]]]
           /\ calls' = [calls EXCEPT ![p].encode_bool_iter = @ + 1]
           /\ IF r.res.tag = "Ok"
              THEN /\ definition_levels_byte_length' =
                          [definition_levels_byte_length EXCEPT ![p] = Len(r.buffer)]
                   /\ pc' = [pc EXCEPT ![p] = "ValidityEncoded"]
                   /\ UNCHANGED result
              ELSE /\ result' = [result EXCEPT ![p] = Propagate(r.res)]
                   /\ pc' = [pc EXCEPT ![p] = "Error"]
                   /\ UNCHANGED definition_levels_byte_length
    /\ UNCHANGED <<env, inputs, length, iter_pos, handed, assembled>>

\* Line 38, one iteration of encode_plain's for_each.
EncodePlainRow(p) ==
    /\ pc[p] = "ValidityEncoded"
    /\ iter_pos[p] < Len(data[p])
    /\ buffer' = [buffer EXCEPT ![p] = extend_from_slice(@, data[p][iter_pos[p] + 1])]
    /\ iter_pos' = [iter_pos EXCEPT ![p] = @ + 1]
    /\ UNCHANGED <<env, inputs, pc, null_count, length, definition_levels_byte_length,
                   nulls, encoded, handed, assembled, calls, result>>

\* Line 38, encode_plain returns once the iterator is exhausted.
EncodePlainReturn(p) ==
    /\ pc[p] = "ValidityEncoded"
    /\ iter_pos[p] = Len(data[p])
    /\ pc' = [pc EXCEPT ![p] = "ValuesEncoded"]
    /\ calls' = [calls EXCEPT ![p].encode_plain = @ + 1]
    /\ UNCHANGED <<env, inputs, buffer, null_count, length, definition_levels_byte_length,
                   iter_pos, nulls, encoded, handed, assembled, result>>

\* BuildPage with lines 38 and 39 swapped: the page is built before
\* encode_plain has run.
BuildPage_Early(p) ==
    /\ pc[p] = "ValidityEncoded"
    /\ iter_pos[p] = 0
    /\ handed' = [handed EXCEPT ![p] = Ok(PageArgs(p))]
    /\ assembled' = [assembled EXCEPT ![p] = build_plain_page(PageArgs(p))]
    /\ calls' = [calls EXCEPT ![p].build_plain_page = @ + 1]
    /\ pc' = [pc EXCEPT ![p] = "Assembled"]
    /\ UNCHANGED <<env, inputs, buffer, null_count, length, definition_levels_byte_length,
                   iter_pos, nulls, encoded, result>>

\* Lines 39-49: the buffer is moved into build_plain_page, which returns.
BuildPage(p) ==
    /\ pc[p] = "ValuesEncoded"
    /\ handed' = [handed EXCEPT ![p] = Ok(PageArgs(p))]
    /\ assembled' = [assembled EXCEPT ![p] = build_plain_page(PageArgs(p))]
    /\ calls' = [calls EXCEPT ![p].build_plain_page = @ + 1]
    /\ pc' = [pc EXCEPT ![p] = "Assembled"]
    /\ UNCHANGED <<env, inputs, buffer, null_count, length, definition_levels_byte_length,
                   iter_pos, nulls, encoded, result>>

\* Line 50: .map(Page::Data), and the return.
Return(p) ==
    /\ pc[p] = "Assembled"
    /\ LET r == MapPageData(assembled[p])
       IN  /\ result' = [result EXCEPT ![p] = r]
           /\ pc' = [pc EXCEPT ![p] = IF r.tag = "Ok" THEN "Done" ELSE "Error"]
    /\ UNCHANGED <<env, inputs, buffer, null_count, length, definition_levels_byte_length,
                   iter_pos, nulls, encoded, handed, assembled, calls>>

\* One step of the invocation p is in.
Step(p) ==
    \/ EncodeValidity(p)
    \/ EncodePlainRow(p)
    \/ EncodePlainReturn(p)
    \/ BuildPage(p)
    \/ Return(p)

Next ==
    \E p \in Procs :
        \/ \E c \in Columns, o \in WriteOptions : Call(p, c, o, PrimitiveType(c.n))
        \/ Step(p)

Spec == Init /\ [][Next]_vars

\* The columns thread p is given under FairSpec: every column for one thread,
\* the scenario column for the others.
FairColumns(p) == IF p = 1 THEN Columns ELSE {ScenarioColumn}

FairNext ==
    \E p \in Procs :
        \/ \E c \in FairColumns(p), o \in WriteOptions : Call(p, c, o, PrimitiveType(c.n))
        \/ Step(p)

\* bytes_to_page is synchronous and never blocks: a thread inside an
\* invocation keeps taking its steps.
FairSpec == Init /\ [][FairNext]_vars /\ \A p \in Procs : WF_vars(Step(p))

\* ------------------------------------------------------------ properties

IsPrefix(a, b) == Len(a) <= Len(b) /\ SubSeq(b, 1, Len(a)) = a

\* The invocations whose build_plain_page call has been made.
Handed(p) == handed[p].tag = "Ok"

\* The value region of the buffer handed to the assembler: what follows the
\* first definition_levels_byte_length bytes.
ValueRegion(a) == SubSeq(a.buffer, a.definition_levels_byte_length + 1, Len(a.buffer))

\* C1: the buffer is empty when the Validity Encoder is called, and the
\* definition_levels_byte_length handed to the Page Assembler is the number of
\* bytes the encoder appended (buffer length after it returned minus the
\* length before), those bytes being the first of the handed buffer.
C1_ValidityBlockLength ==
    \A p \in Procs :
        /\ pc[p] = "Start" => buffer[p] = <<>>
        /\ encoded[p].tag # "None" => encoded[p].val.before = <<>>
        /\ Handed(p) =>
             LET a == handed[p].val
                 e == encoded[p].val
             IN  /\ a.definition_levels_byte_length = Len(e.after) - Len(e.before)
                 /\ a.definition_levels_byte_length <= Len(a.buffer)
                 /\ SubSeq(a.buffer, 1, a.definition_levels_byte_length) = e.after

C1_Witness ==
    \E p \in Procs :
        /\ Handed(p)
        /\ Len(data[p]) > 0
        /\ handed[p].val.definition_levels_byte_length > 0
        /\ Len(handed[p].val.buffer) > handed[p].val.definition_levels_byte_length

\* C2: the value region handed to the assembler has num_values * N bytes, and
\* num_values + null_count is the column length L.
C2_ValueRegionLength ==
    \A p \in Procs :
        Handed(p) =>
            LET a == handed[p].val
            IN  /\ Len(a.buffer) - a.definition_levels_byte_length = a.num_values * N[p]
                /\ a.num_values + a.null_count = Len(data[p])

C2_Witness ==
    \E p \in Procs :
        /\ Handed(p)
        /\ Len(data[p]) = 2
        /\ Len(ValueRegion(handed[p].val)) = 2 * N[p]

\* C3: the handed buffer is the validity block followed by the value region,
\* and byte j of row i of the column is byte (i-1)*N + j of the value region,
\* which holds nothing else; the scenario column gives bytes 1..12, null_count 0.
C3_PlainLayout ==
    \A p \in Procs :
        Handed(p) =>
            LET a == handed[p].val
                v == ValueRegion(a)
            IN  /\ a.buffer = encoded[p].val.after \o v
                /\ Len(v) = Len(data[p]) * N[p]
                /\ \A i \in 1..Len(data[p]) : \A j \in 1..N[p] :
                       v[(i - 1) * N[p] + j] = data[p][i][j]
                /\ data[p] = ScenarioColumn.rows =>
                       /\ v = <<1, 2, 3, 4, 5, 6, 7, 8, 9, 10, 11, 12>>
                       /\ a.null_count = 0

C3_Witness ==
    \E p \in Procs :
        /\ Handed(p)
        /\ data[p] = ScenarioColumn.rows
        /\ ValueRegion(handed[p].val) = <<1, 2, 3, 4, 5, 6, 7, 8, 9, 10, 11, 12>>

\* The invocations that have returned.
Returned(p) == pc[p] \in {"Done", "Error"}

SameInputs(p, q) ==
    /\ N[p] = N[q]
    /\ data[p] = data[q]
    /\ options[p] = options[q]
    /\ type_[p] = type_[q]

\* C5: two returned invocations with identical inputs, whatever ran before or
\* between them on either thread, called the Validity Encoder and the Page
\* Assembler with identical arguments and returned identical results.
C5_Deterministic ==
    \A p, q \in Procs :
        (Returned(p) /\ Returned(q) /\ SameInputs(p, q)) =>
            /\ nulls[p] = nulls[q]
            /\ handed[p] = handed[q]
            /\ result[p] = result[q]

C5_Witness ==
    \E p, q \in Procs :
        /\ p # q
        /\ pc[p] = "Done" /\ pc[q] = "Done"
        /\ SameInputs(p, q)
        /\ Len(data[p]) = 2
        /\ result[p] = result[q]

\* C6: an invocation on an empty column gives the Validity Encoder the empty
\* sequence, appends no value byte, calls the Page Assembler (when it reaches
\* it) with 0 rows, 0 values, 0 nulls and an empty value region, and, the
\* collaborators accepting its version and type, returns the assembled page.
C6_EmptyColumn ==
    \A p \in Procs :
        (pc[p] # "Idle" /\ data[p] = <<>>) =>
            /\ nulls[p].tag = "Ok" => nulls[p].val = <<>>
            /\ iter_pos[p] = 0
            /\ encoded[p].tag = "Ok" => buffer[p] = encoded[p].val.after
            /\ Handed(p) =>
                   LET a == handed[p].val
                   IN  /\ a.num_rows = 0
                       /\ a.num_values = 0
                       /\ a.null_count = 0
                       /\ Len(ValueRegion(a)) = 0
                       /\ Len(a.buffer) = a.definition_levels_byte_length
            /\ (Returned(p) /\ options[p].version \notin encFails /\ type_[p] \notin asmFails) =>
                   /\ pc[p] = "Done"
                   /\ Handed(p)
                   /\ assembled[p].tag = "Ok"
                   /\ result[p] = Ok([variant |-> "Data", page |-> assembled[p].val])

C6_Witness ==
    \E p \in Procs :
        /\ pc[p] = "Done"
        /\ data[p] = <<>>
        /\ result[p].val.page.header.num_rows = 0
        /\ Len(result[p].val.page.header.buffer) > 0

\* The stage changes of one invocation, and the next call after it returned.
StageEdges ==
    {<<"Idle", "Start">>, <<"Done", "Start">>, <<"Error", "Start">>,
     <<"Start", "ValidityEncoded">>, <<"Start", "Error">>,
     <<"ValidityEncoded", "ValuesEncoded">>,
     <<"ValuesEncoded", "Assembled">>,
     <<"Assembled", "Done">>, <<"Assembled", "Error">>}

CallCounts(e, v, a) == [encode_bool_iter |-> e, encode_plain |-> v, build_plain_page |-> a]

\* What each stage has and has not done.
StageInv(p) ==
    /\ pc[p] \in Stages
    /\ pc[p] = "Start" =>
           calls[p] = CallCounts(0, 0, 0) /\ iter_pos[p] = 0 /\ ~Handed(p)
    /\ pc[p] = "ValidityEncoded" =>
           calls[p] = CallCounts(1, 0, 0) /\ encoded[p].tag = "Ok" /\ ~Handed(p)
    /\ pc[p] = "ValuesEncoded" =>
           calls[p] = CallCounts(1, 1, 0) /\ iter_pos[p] = Len(data[p]) /\ ~Handed(p)
    /\ pc[p] = "Assembled" =>
           calls[p] = CallCounts(1, 1, 1) /\ Handed(p) /\ result[p] = Nothing
    /\ pc[p] = "Done" =>
           calls[p] = CallCounts(1, 1, 1) /\ Handed(p) /\ result[p].tag = "Ok"
    /\ pc[p] = "Error" =>
           /\ result[p].tag = "Err"
           /\ \/ /\ encoded[p].tag = "Err"
                 /\ calls[p] = CallCounts(1, 0, 0)
                 /\ iter_pos[p] = 0
                 /\ ~Handed(p)
                 /\ assembled[p] = Nothing
                 /\ result[p].val = encoded[p].val.res
              \/ /\ assembled[p].tag = "Err"
                 /\ calls[p] = CallCounts(1, 1, 1)
    /\ iter_pos[p] > 0 => encoded[p].tag = "Ok"
    /\ Handed(p) => iter_pos[p] = Len(data[p])

\* An invocation's stage changes only along StageEdges.
StageStep(p) == pc'[p] # pc[p] => <<pc[p], pc'[p]>> \in StageEdges

\* C7: every invocation goes Start -> ValidityEncoded -> ValuesEncoded ->
\* Assembled -> Done, or ends in Error; each collaborator is called at most
\* once and in that order; after a failed Validity Encoder no value byte is
\* appended, the assembler is not called and the result carries only the
\* error; and every invocation that started returns.
C7_LinearStages ==
    /\ [](\A p \in Procs : StageInv(p))
    /\ [][\A p \in Procs : StageStep(p)]_vars
    /\ \A p \in Procs : (pc[p] = "Start") ~> Returned(p)

C7_Witness ==
    \E p, q \in Procs :
        /\ pc[p] = "Error" /\ encoded[p].tag = "Err" /\ Len(data[p]) > 0
        /\ pc[q] = "Done" /\ Len(data[q]) > 0

\* C8: the sequence given to the Validity Encoder has one element per row,
\* all TRUE; length is the column length and is set before the sequence is
\* consumed; the assembler gets null_count 0 and L for both counts.
C8_AllRowsValid ==
    \A p \in Procs :
        /\ pc[p] = "Start" => (nulls[p] = Nothing /\ length[p] = Len(data[p]))
        /\ nulls[p].tag = "Ok" =>
               /\ Len(nulls[p].val) = Len(data[p])
               /\ \A i \in 1..Len(data[p]) : nulls[p].val[i] = TRUE
               /\ length[p] = Len(data[p])
        /\ Handed(p) =>
               /\ handed[p].val.null_count = 0
               /\ handed[p].val.num_rows = Len(data[p])
               /\ handed[p].val.num_values = Len(data[p])

C8_Witness ==
    \E p \in Procs :
        /\ Handed(p)
        /\ Len(data[p]) = 2
        /\ data[p][1] # data[p][2]
        /\ nulls[p].val = <<TRUE, TRUE>>

\* A step taken while encode_plain runs in p keeps p's buffer as a prefix of
\* the new buffer and leaves the column alone.
PlainStepAdditive(p) ==
    pc[p] = "ValidityEncoded" =>
        /\ IsPrefix(buffer[p], buffer'[p])
        /\ data'[p] = data[p]
        /\ N'[p] = N[p]

\* C9: encode_plain only appends: every step of it keeps the buffer it found
\* as a prefix, never shortens it and does not change the column, so the
\* buffer handed to the assembler starts with the bytes the Validity Encoder
\* left.
C9_PlainIsAdditive ==
    /\ [][\A p \in Procs : PlainStepAdditive(p)]_vars
    /\ [](\A p \in Procs :
            /\ pc[p] \in {"ValidityEncoded", "ValuesEncoded"} =>
                   IsPrefix(encoded[p].val.after, buffer[p])
            /\ Handed(p) => IsPrefix(encoded[p].val.after, handed[p].val.buffer))

C9_Witness ==
    \E p \in Procs :
        /\ pc[p] = "ValidityEncoded"
        /\ iter_pos[p] = 2
        /\ Len(buffer[p]) = Len(encoded[p].val.after) + 2 * N[p]

\* The locals and inputs of invocation p.
Frame(p) ==
    <<pc[p], N[p], data[p], options[p], type_[p], buffer[p], null_count[p], length[p],
      definition_levels_byte_length[p], iter_pos[p], nulls[p], encoded[p], handed[p],
      assembled[p], calls[p], result[p]>>

\* A step leaves every invocation but one as it was, and changes the inputs
\* of an invocation only by a new call.
NoInterference ==
    /\ \A p, q \in Procs : (p # q /\ Frame(p)' # Frame(p)) => Frame(q)' = Frame(q)
    /\ \A p \in Procs :
           pc[p] \notin {"Idle", "Done", "Error"} =>
               <<N[p], data[p], options[p], type_[p]>>' = <<N[p], data[p], options[p], type_[p]>>

\* C10: however the steps of several invocations interleave, a step of one
\* changes nothing of another, the inputs stay as given, and each invocation
\* makes the build_plain_page call and returns the result that bytes_to_page
\* run alone on its inputs makes and returns.
C10_Interleaving ==
    /\ [][NoInterference]_vars
    /\ [](\A p \in Procs :
            LET alone == bytes_to_page(data[p], options[p], type_[p])
            IN  /\ Handed(p) => handed[p] = alone.handed
                /\ Returned(p) => (handed[p] = alone.handed /\ result[p] = alone.result))

C10_Witness ==
    \E p, q \in Procs :
        /\ p # q
        /\ data[p] = data[q] /\ Len(data[p]) = 2
        /\ pc[p] = "Assembled"
        /\ pc[q] = "ValidityEncoded" /\ iter_pos[q] = 1

=============================================================================
